---- MODULE Spec2Model ----
(***************************************************************************)
(* Model of the Docker engine of codapi (internal/engine/docker.go):       *)
(* Docker.Exec sequences an optional setup step (cmd.Before), the run      *)
(* steps (cmd.Steps) and an optional cleanup step (cmd.After) in one temp  *)
(* directory; Docker.execStep validates the version, copies the box files  *)
(* and invokes docker; Docker.exec classifies the raw outcome and, on a    *)
(* timeout of a `run` step, starts a goroutine that kills the container.   *)
(* Docker.writeFiles stages the request files; the container that docker   *)
(* keeps under the name req.ID is part of the state.                       *)
(***************************************************************************)
EXTENDS Integers, Sequences, FiniteSets, TLC

(* ------------------------------ bounds --------------------------------- *)

\* longest cmd.Steps list explored
MaxSteps == 2

(* ---------------------------- constants -------------------------------- *)

actionRun == "run"

actionExec == "exec"

\* a nil pointer (*config.Step, *config.Box) or a value not yet produced
Nil == [nil |-> TRUE]

\* the request identifier, also the container name
ReqID == "id1"

\* cfg.Boxes: the configured boxes, by name
Boxes ==
    [b \in {"python"} |->
        [Image |-> "python", Versions |-> {"1.0", "2.0"}, Files |-> <<"*.py">>]]

\* e.cfg.Boxes[step.Box]: a missing key gives the nil box
BoxOf(name) == IF name \in DOMAIN Boxes THEN Boxes[name] ELSE Nil

\* the step configurations explored: run steps of a configured box (version
\* free or pinned), an exec step naming a running container that has no box,
\* and a step with an unknown action
RunStep == [Box |-> "python", Action |-> actionRun, Version |-> ""]

PinnedStep == [Box |-> "python", Action |-> actionRun, Version |-> "3.12"]

ExecStep == [Box |-> "ctr", Action |-> actionExec, Version |-> ""]

OtherStep == [Box |-> "python", Action |-> "start", Version |-> ""]

StepConfigs == {RunStep, PinnedStep, ExecStep, OtherStep}

\* the setup and cleanup steps explored, besides none
HookConfigs == {Nil, RunStep, ExecStep}

\* the request versions explored: none, a supported one, an unsupported one
ReqVersions == {"", "2.0", "3.0"}

\* the command entry point file names explored
Entries == {"", "main.py"}

\* the request file collections explored, each the names of its entries in
\* iteration order (the empty name is the entry point file): the entry
\* point file alone, with a module beside it, and with a file that has the
\* entry point's own name
FileLists == { <<"">>, <<"", "util.py">>, <<"", "main.py">> }

(* ------------------------------ errors --------------------------------- *)

\* the nil error
NoErr == [kind |-> "nil", msg |-> ""]

\* the ErrTimeout sentinel
ErrTimeout == [kind |-> "ErrTimeout", msg |-> "code execution timeout"]

\* NewExecutionError(msg, err): an error of type ExecutionError
NewExecutionError(msg, err) ==
    [kind |-> "ExecutionError", msg |-> msg \o ": " \o err.msg]

\* fmt.Errorf: a plain error carrying only its text
Errorf(msg) == [kind |-> "errorString", msg |-> msg]

\* an *exec.ExitError as Program.Run returns it
ExitError(msg) == [kind |-> "ExitError", msg |-> msg]

\* an error of the operating system (file I/O, process start)
OsError(msg) == [kind |-> "PathError", msg |-> msg]

\* Fail(id, err): the failed Execution of an error. It gets the error
\* alone; the output fields are empty unless the error is a plain one, whose
\* text (the program's output and the exit detail) is then the stderr
Fail(id, err) ==
    [ID |-> id, OK |-> FALSE, Stdout |-> "",
     Stderr |-> IF err.kind \in {"ExecutionError", "ErrTimeout"}
                THEN "" ELSE err.msg,
     Err |-> err]

\* the Execution execStep builds on success
Success(id, stdout, stderr) ==
    [ID |-> id, OK |-> TRUE, Stdout |-> stdout, Stderr |-> stderr, Err |-> NoErr]

(* ------------------------------- state --------------------------------- *)

VARIABLES
    cmd,      \* e.cmd: [Entry, Before, Steps, After], fixed at construction
    req,      \* the Request of this Exec call: [ID, Version, Files]
    pc,       \* where the goroutine running Exec stands
    cur,      \* the step execStep is running: 0 Before, 1..n Steps, n+1 After
    dir,      \* the temp directory: "absent" (never made), "exists", "removed"
    out,      \* Exec's variable `out`, Nil until the first run step returned
    result,   \* the Execution Exec returned, Nil until it returned
    loc,      \* the named results stdout and stderr of the running exec call
    errv,     \* the named result err of each step's exec call, Nil before it
    cause,    \* why the docker process of the running step ended, else "none"
    calls,    \* history: the steps execStep was called for, in order
    written,  \* history: the paths fileio.WriteFile was called for, in order
    copies,   \* history: the steps fileio.CopyFiles was called for
    procs,    \* history: the docker invocations of Program.Run/RunStdin
    raws,     \* history: what Program.Run returned for each step
    rets,     \* history: what exec returned for each step
    outs,     \* history: what execStep returned for each step
    kills,    \* the goroutines started to kill the container, in start order
    ctr       \* the container named req.ID that exists in docker, else Nil

\* the configuration and the request
conf == <<cmd, req>>

\* the variables of Exec
ctl == <<pc, cur, dir, out, result, calls, outs>>

\* the variables of the running exec call
frame == <<loc, errv, cause>>

\* what the step executor did so far
hist == <<written, copies, procs, raws, rets>>

vars == <<conf, ctl, frame, hist, kills, ctr>>

\* the number of run steps, and the indices of the setup and cleanup steps
NSteps == Len(cmd.Steps)

BeforeIx == 0

AfterIx == NSteps + 1

StepIxs == 0..AfterIx

\* the step configuration behind an index
StepAt(k) ==
    IF k = BeforeIx THEN cmd.Before
    ELSE IF k = AfterIx THEN cmd.After
    ELSE cmd.Steps[k]

\* the step sequences of length 1..n
StepSeqs(n) == UNION { [1..m -> StepConfigs] : m \in 1..n }

\* the state in which Exec is entered
Entered ==
    /\ pc = "MkdirTemp"
    /\ cur = 0
    /\ dir = "absent"
    /\ out = Nil
    /\ result = Nil
    /\ loc = Nil
    /\ errv = [k \in StepIxs |-> Nil]
    /\ cause = "none"
    /\ calls = <<>>
    /\ copies = <<>>
    /\ procs = <<>>
    /\ raws = [k \in StepIxs |-> Nil]
    /\ rets = [k \in StepIxs |-> Nil]
    /\ outs = [k \in StepIxs |-> Nil]
    /\ kills = <<>>
    /\ written = <<>>
    /\ ctr = Nil

\* every command of up to MaxSteps run steps that has an entry point, with
\* a request that carries the entry point file
Init ==
    /\ cmd \in [Entry : Entries \ {""}, Before : HookConfigs,
                Steps : StepSeqs(MaxSteps), After : HookConfigs]
    /\ req \in [ID : {ReqID}, Version : ReqVersions, Files : {<<"">>}]
    /\ Entered

\* the commands of one `run` step with or without an entry point and a
\* cleanup step, with every request file collection
InitFiles ==
    /\ cmd \in [Entry : Entries, Before : {Nil},
                Steps : {<<RunStep>>}, After : {Nil, RunStep}]
    /\ req \in [ID : {ReqID}, Version : {""}, Files : FileLists]
    /\ Entered

(* ------------------------- pure parts of the code ---------------------- *)

\* the value standing for a run-time panic (nil pointer dereference)
Panicked == [kind |-> "panic", msg |-> "nil pointer dereference"]

\* validateVersion as it would be were the step's pinned version not tested
validateVersionNoPin(box, step, rq) ==
    IF rq.Version # ""
    THEN IF box = Nil THEN [kind |-> "panic", msg |-> "nil pointer dereference"]
         ELSE IF rq.Version \notin box.Versions
              THEN [kind |-> "errorString",
                    msg |-> "box " \o step.Box \o " does not support version "
                            \o rq.Version]
              ELSE [kind |-> "nil", msg |-> ""]
    ELSE [kind |-> "nil", msg |-> ""]

\* validateVersion as it would be were the request's version not looked up
\* among the box's versions
validateVersionUnchecked(box, step, rq) ==
    IF step.Version = "" /\ rq.Version # "" /\ box = Nil THEN Panicked
    ELSE NoErr

\* Docker.validateVersion; the condition is evaluated left to right, and
\* its third operand reads box.Versions through the box pointer
validateVersion(box, step, rq) ==
    IF step.Version = "" /\ rq.Version # ""
    THEN IF box = Nil THEN Panicked
         ELSE IF rq.Version \notin box.Versions
              THEN Errorf("box " \o step.Box \o " does not support version "
                          \o rq.Version)
              ELSE NoErr
    ELSE NoErr

\* HasBoxFiles as it would be were the box files never copied
HasBoxFilesNever(box) == FALSE

\* Docker.copyFiles: whether there is anything to copy
HasBoxFiles(box) == ~(box = Nil \/ Len(box.Files) = 0)

\* ImageArg as it would be were the request's version tested before the
\* step's pinned one
ImageArgRequestFirst(box, step, rq) ==
    IF rq.Version # "" THEN box.Image \o ":" \o rq.Version
    ELSE IF step.Version # "" THEN box.Image \o ":" \o step.Version
    ELSE box.Image

\* the image argument dockerRunArgs appends
ImageArg(box, step, rq) ==
    IF step.Version # "" THEN box.Image \o ":" \o step.Version
    ELSE IF rq.Version # "" THEN box.Image \o ":" \o rq.Version
    ELSE box.Image

\* dockerRunArgs: the name and the image of the new container (the resource
\* flags, all read through the box pointer too, are left out)
dockerRunArgs(box, step, rq) ==
    IF box = Nil THEN Panicked
    ELSE [cmd |-> actionRun, name |-> rq.ID, image |-> ImageArg(box, step, rq)]

\* dockerExecArgs: the running container is named by step.Box
dockerExecArgs(step) ==
    [cmd |-> actionExec, name |-> step.Box, image |-> ""]

\* Docker.buildArgs
buildArgs(box, step, rq) ==
    IF step.Action = actionRun THEN dockerRunArgs(box, step, rq)
    ELSE IF step.Action = actionExec THEN dockerExecArgs(step)
    ELSE [cmd |-> "version", name |-> "", image |-> ""]

\* how a docker process started by Program.Run can end, and what Run then
\* returns: exit 0, killed at the step's timeout, killed by something else
\* (the kernel's OOM killer, an operator), exit 1, or never started
RawOutcomes ==
    { [stdout |-> "out", stderr |-> "", err |-> NoErr, cause |-> "exit0"],
      [stdout |-> "", stderr |-> "", err |-> ExitError("signal: killed"),
       cause |-> "timeout"],
      [stdout |-> "", stderr |-> "", err |-> ExitError("signal: killed"),
       cause |-> "oom"],
      [stdout |-> "", stderr |-> "boom", err |-> ExitError("exit status 1"),
       cause |-> "exit1"],
      [stdout |-> "out", stderr |-> "boom", err |-> ExitError("exit status 1"),
       cause |-> "exit1"],
      [stdout |-> "", stderr |-> "", err |-> ExitError("exit status 1"),
       cause |-> "exit1"],
      [stdout |-> "", stderr |-> "", err |-> OsError("exec: docker: not found"),
       cause |-> "start"] }

\* the outcomes of the docker process of step k: those above, the standard
\* output of an exit 0 being the step's own
OutcomesOf(k) ==
    { IF raw.cause = "exit0"
      THEN [raw EXCEPT !.stdout = "out" \o ToString(k)] ELSE raw :
      raw \in RawOutcomes }

\* what `docker run --name id` does when a container of that name exists:
\* it creates none and exits nonzero
NameConflict ==
    [stdout |-> "", stderr |-> "name in use", err |-> ExitError("exit status 125"),
     cause |-> "conflict"]

\* what `docker run` returns when its container was killed by `docker kill`
ContainerKilled ==
    [stdout |-> "", stderr |-> "", err |-> ExitError("exit status 137"),
     cause |-> "dockerkill"]

\* exec, lines 189-191: the container outlives a `docker run` process that
\* was killed; it is removed (--rm) when docker run ends in another way
Orphans(raw) == raw.cause \in {"timeout", "oom"}

\* the (stdout, stderr, err) Program.Run returns for an outcome
Returned(raw) == [stdout |-> raw.stdout, stderr |-> raw.stderr, err |-> raw.err]

\* exec, line 187: the error text says the process was killed
IsKilled(err) == err.msg = "signal: killed"

\* SpawnsKill as it would be were no goroutine started
SpawnsKillNever(step) == FALSE

\* exec, line 188: a goroutine killing the container is started
SpawnsKill(step) == step.Action = actionRun

\* exec, lines 182-185 and 206-219: the named results when the process was
\* not killed
classify(raw) ==
    IF raw.err = NoErr
    THEN [stdout |-> raw.stdout, stderr |-> raw.stderr, err |-> NoErr]
    ELSE IF raw.err.kind = "ExitError"
    THEN LET both == raw.stdout \o raw.stderr
         IN [stdout |-> "", stderr |-> both,
             err |-> IF both # ""
                     THEN Errorf(both \o " (" \o raw.err.msg \o ")")
                     ELSE raw.err]
    ELSE [stdout |-> raw.stdout, stderr |-> raw.stderr,
          err |-> NewExecutionError("execute code", raw.err)]

\* execStep, lines 113-123: the Execution of what exec returned
StepExecution(id, ret) ==
    IF ret.err # NoErr THEN Fail(id, ret.err)
    ELSE Success(id, ret.stdout, ret.stderr)

\* what dockerKill can return: nil, or an error (docker kill exited nonzero,
\* or was itself killed at its deadline killTimeout)
KillResults == { NoErr, ExitError("exit status 1") }

\* writeFiles, lines 155-158: the path, below the temp directory, of the
\* request file `name`
PathOf(entry, name) == IF name = "" THEN entry ELSE name

\* copyFilesError as it would be were the error not wrapped
copyFilesErrorPlain(err) == err

\* execStep, line 109: the error for a failed copy of the box files
copyFilesError(err) == NewExecutionError("copy files to temp dir", err)

\* RemoveAll as it would be were the removal not deferred on every path
RemoveAllSkipped(d) == d

\* the deferred os.RemoveAll(dir)
RemoveAll(d) == "removed"

\* BeforeAborts as it would be were the setup step's result ignored
BeforeNeverAborts(o) == FALSE

\* Exec, line 67: the setup step's failure ends the call
BeforeAborts(o) == ~o.OK

\* RunsNextStep as it would be without the break at line 83
RunsNextStepNoBreak(o, k, n) == k < n

\* Exec, lines 77-85: whether the step after step k of n is run
RunsNextStep(o, k, n) == o.OK /\ k < n

\* AfterResult as it would be were out.OK not tested at line 91
AfterResultCleanupWins(o, afterOut) == IF ~afterOut.OK THEN afterOut ELSE o

\* AfterResult as it would be were the cleanup step's Execution the result
AfterResultOfCleanup(o, afterOut) == afterOut

\* Exec, lines 89-96: the result when the cleanup step returned afterOut
AfterResult(o, afterOut) == IF o.OK /\ ~afterOut.OK THEN afterOut ELSE o

(* ------------------------------ Exec ----------------------------------- *)

\* execStep is called for step k
StartStep(k) ==
    /\ pc' = "validateVersion"
    /\ cur' = k
    /\ calls' = Append(calls, k)

\* Exec returns o; the deferred RemoveAll runs
Return(o) ==
    /\ pc' = "done"
    /\ result' = o
    /\ dir' = RemoveAll(dir)

\* a panic unwinds Exec: the deferred RemoveAll runs, nothing is returned
Panic ==
    /\ pc' = "panic"
    /\ dir' = RemoveAll(dir)
    /\ UNCHANGED <<cur, out, result, calls, outs>>

\* Exec, lines 64-96: execStep returned o for the step cur
StepDone(o) ==
    /\ outs' = [outs EXCEPT ![cur] = o]
    /\ IF cur = BeforeIx
       THEN IF BeforeAborts(o)
            THEN Return(o) /\ UNCHANGED <<cur, calls, out>>
            ELSE StartStep(1) /\ UNCHANGED <<out, result, dir>>
       ELSE IF cur = AfterIx
       THEN Return(AfterResult(out, o)) /\ UNCHANGED <<cur, calls, out>>
       ELSE /\ out' = o
            /\ IF RunsNextStep(o, cur, NSteps)
               THEN StartStep(cur + 1) /\ UNCHANGED <<result, dir>>
               ELSE IF cmd.After # Nil
               THEN StartStep(AfterIx) /\ UNCHANGED <<result, dir>>
               ELSE Return(o) /\ UNCHANGED <<cur, calls>>

\* execStep goes on to its next statement
Goto(l) ==
    /\ pc' = l
    /\ UNCHANGED <<cur, dir, out, result, calls, outs>>

\* Exec, lines 46-51: os.MkdirTemp makes the directory or fails
MkdirTemp ==
    /\ pc = "MkdirTemp"
    /\ \/ /\ dir' = "exists"
          /\ pc' = "writeFiles"
          /\ UNCHANGED result
       \/ /\ result' = Fail(req.ID, NewExecutionError("create temp dir",
                                        OsError("mkdir: no space left")))
          /\ pc' = "done"
          /\ UNCHANGED dir
    /\ UNCHANGED <<cur, out, calls, outs, conf, frame, hist, kills, ctr>>

\* the paths writeFiles calls fileio.WriteFile for when the first n calls
\* succeed: those of the first n entries and, if there is one, of the next
WritePaths(n) ==
    [i \in 1..(IF n < Len(req.Files) THEN n + 1 ELSE n) |->
        PathOf(cmd.Entry, req.Files[i])]

\* Exec, lines 55-73, and writeFiles: the request files are written, in
\* order and up to the first failure, when the command has an entry point;
\* then the setup step is run, or else the first run step
WriteFiles ==
    /\ pc = "writeFiles"
    /\ IF cmd.Entry = ""
       THEN /\ StartStep(IF cmd.Before # Nil THEN BeforeIx ELSE 1)
            /\ UNCHANGED <<result, dir, written>>
       ELSE \E n \in 0..Len(req.Files) :
               /\ written' = WritePaths(n)
               /\ IF n = Len(req.Files)
                  THEN /\ StartStep(IF cmd.Before # Nil THEN BeforeIx ELSE 1)
                       /\ UNCHANGED <<result, dir>>
                  ELSE /\ Return(Fail(req.ID, NewExecutionError(
                              "write files to temp dir",
                              OsError("write: permission denied"))))
                       /\ UNCHANGED <<cur, calls>>
    /\ UNCHANGED <<out, outs, conf, frame, copies, procs, raws, rets, kills, ctr>>

(* ----------------------------- execStep -------------------------------- *)

\* execStep, lines 101-105
ValidateVersion ==
    /\ pc = "validateVersion"
    /\ LET step == StepAt(cur)
           err == validateVersion(BoxOf(step.Box), step, req)
       IN IF err = Panicked THEN Panic
          ELSE IF err # NoErr THEN StepDone(Fail(req.ID, err))
          ELSE Goto("copyFiles")
    /\ UNCHANGED <<conf, frame, hist, kills, ctr>>

\* execStep, lines 107-111, and copyFiles
CopyFiles ==
    /\ pc = "copyFiles"
    /\ IF HasBoxFiles(BoxOf(StepAt(cur).Box))
       THEN /\ copies' = Append(copies, cur)
            /\ \/ Goto("exec")
               \/ StepDone(Fail(req.ID,
                      copyFilesError(OsError("copy: no space left"))))
       ELSE Goto("exec") /\ UNCHANGED copies
    /\ UNCHANGED <<conf, frame, written, procs, raws, rets, kills, ctr>>

\* exec, lines 182-204: Program.Run returned the outcome raw, which is
\* classified; when the process was killed, the goroutine that kills the
\* container is started (for a `run` step) and exec stands before line 202
Ran(raw) ==
    /\ raws' = [raws EXCEPT ![cur] = Returned(raw)]
    /\ cause' = raw.cause
    /\ IF raw.err # NoErr /\ IsKilled(raw.err)
       THEN /\ loc' = [stdout |-> raw.stdout, stderr |-> raw.stderr]
            /\ errv' = [errv EXCEPT ![cur] = raw.err]
            /\ kills' = IF SpawnsKill(StepAt(cur))
                        THEN Append(kills, [frame |-> cur, id |-> req.ID,
                                            pc |-> "start"])
                        ELSE kills
            /\ Goto("timeout")
       ELSE LET c == classify(raw)
            IN /\ loc' = [stdout |-> c.stdout, stderr |-> c.stderr]
               /\ errv' = [errv EXCEPT ![cur] = c.err]
               /\ kills' = kills
               /\ Goto("return")

\* exec, lines 170-180: the arguments are built and docker is started, or
\* cannot be; a `docker run` that starts creates the container named
\* req.ID unless one of that name exists
RunProgram ==
    /\ pc = "exec"
    /\ LET step == StepAt(cur)
           args == buildArgs(BoxOf(step.Box), step, req)
       IN IF args = Panicked
          THEN Panic /\ UNCHANGED <<frame, procs, raws, kills, ctr>>
          ELSE LET creates == args.cmd = actionRun /\ ctr = Nil
               IN \/ /\ procs' = Append(procs, [step |-> cur, args |-> args,
                                                created |-> creates])
                     /\ ctr' = IF creates THEN [step |-> cur] ELSE ctr
                     /\ Goto("running")
                     /\ UNCHANGED <<frame, raws, kills>>
                  \/ \E raw \in {r \in OutcomesOf(cur) : r.cause = "start"} :
                        /\ procs' = Append(procs, [step |-> cur, args |-> args,
                                                   created |-> FALSE])
                        /\ Ran(raw)
                        /\ UNCHANGED ctr
    /\ UNCHANGED <<conf, written, copies, rets>>

\* how the docker process running step k can end: a `docker run` that found
\* its name in use has failed; one whose container was killed under it
\* reports that; otherwise any outcome of a started process
ExitsOf(k) ==
    LET started == procs[Len(procs)]
    IN IF started.args.cmd = actionRun /\ ~started.created
       THEN {NameConflict}
       ELSE IF started.created /\ ctr # [step |-> k]
       THEN {ContainerKilled}
       ELSE {r \in OutcomesOf(k) : r.cause # "start"}

\* exec, lines 173-204: the docker process ends and Program.Run returns
ProgramExit ==
    /\ pc = "running"
    /\ \E raw \in ExitsOf(cur) :
          /\ Ran(raw)
          /\ ctr' = IF ctr = [step |-> cur] /\ ~Orphans(raw) THEN Nil ELSE ctr
    /\ UNCHANGED <<conf, written, copies, procs, rets>>

\* exec, line 202: err = ErrTimeout
AssignTimeout ==
    /\ pc = "timeout"
    /\ errv' = [errv EXCEPT ![cur] = ErrTimeout]
    /\ Goto("return")
    /\ UNCHANGED <<conf, loc, cause, hist, kills, ctr>>

\* exec's return (lines 184, 203, 214, 219) reads the named results, err
\* as it is then; execStep, lines 113-123, makes the Execution of them
ExecReturn ==
    /\ pc = "return"
    /\ LET ret == [stdout |-> loc.stdout, stderr |-> loc.stderr,
                   err |-> errv[cur]]
       IN /\ rets' = [rets EXCEPT ![cur] = ret]
          /\ StepDone(StepExecution(req.ID, ret))
    /\ cause' = "none"
    /\ UNCHANGED <<conf, loc, errv, written, copies, procs, raws, kills, ctr>>

(* ------------------------ the kill goroutine --------------------------- *)

\* dockerKill, lines 321-324: `docker kill id` is run; it kills the
\* container that has the name id then, if there is one
KillCall ==
    \E i \in DOMAIN kills :
        /\ kills[i].pc = "start"
        /\ kills' = [kills EXCEPT ![i].pc = "called"]
        /\ ctr' = Nil
        /\ UNCHANGED <<conf, ctl, frame, hist>>

\* lines 193-198: dockerKill returns, at its deadline at the latest; the
\* goroutine assigns what it returned to the err of the exec that started
\* it, and logs (the read of err for the log is taken with the write)
KillReturn ==
    \E i \in DOMAIN kills : \E res \in KillResults :
        /\ kills[i].pc = "called"
        /\ kills' = [kills EXCEPT ![i].pc = "done"]
        /\ errv' = [errv EXCEPT ![kills[i].frame] = res]
        /\ UNCHANGED <<conf, ctl, loc, cause, hist, ctr>>

(* --------------------------- the container ----------------------------- *)

\* the program in a container left behind by a killed `docker run` ends by
\* itself, and the container is removed (--rm)
ContainerExit ==
    /\ ctr # Nil
    /\ ~(pc = "running" /\ ctr = [step |-> cur])
    /\ ctr' = Nil
    /\ UNCHANGED <<conf, ctl, frame, hist, kills>>

\* the steps of the goroutine that runs Exec
ExecNext ==
    \/ MkdirTemp
    \/ WriteFiles
    \/ ValidateVersion
    \/ CopyFiles
    \/ RunProgram
    \/ ProgramExit
    \/ AssignTimeout
    \/ ExecReturn

Next ==
    \/ MkdirTemp
    \/ WriteFiles
    \/ ValidateVersion
    \/ CopyFiles
    \/ RunProgram
    \/ ProgramExit
    \/ AssignTimeout
    \/ ExecReturn
    \/ KillCall
    \/ KillReturn
    \/ ContainerExit

Spec == Init /\ [][Next]_vars

\* the same steps, from the states of InitFiles
FilesSpec == InitFiles /\ [][Next]_vars

\* FilesSpec under fair scheduling: the goroutine running Exec goes on
\* while it can (Program.Run returns at the step's timeout at the latest);
\* a kill goroutine that was started is run, and its `docker kill` returns
\* at its deadline killTimeout at the latest. Nothing makes a container
\* that was left behind end.
FairSpec ==
    /\ FilesSpec
    /\ WF_vars(ExecNext)
    /\ WF_vars(KillCall)
    /\ WF_vars(KillReturn)

(* ------------------------------ claims --------------------------------- *)

\* whether x is an element of the sequence sq
InSeq(x, sq) == \E i \in DOMAIN sq : sq[i] = x

\* how often x occurs in the sequence sq
Count(x, sq) == Cardinality({i \in DOMAIN sq : sq[i] = x})

\* execStep returned for step k, and returned a failure
Failed(k) == outs[k] # Nil /\ ~outs[k].OK

\* execStep returned for step k, and returned a success
Succeeded(k) == outs[k] # Nil /\ outs[k].OK

\* C1: once Exec has returned (or was unwound by a panic), on whatever
\* path, the temp directory made at its start does not exist.
C1_ScratchDirRemoved == pc \in {"done", "panic"} => dir # "exists"

\* C1 witness: Exec returned a failure after its cleanup step failed, and
\* the directory it had made is removed.
C1_Witness ==
    /\ pc = "done"
    /\ dir = "removed"
    /\ ~result.OK
    /\ Failed(AfterIx)

\* C2: when run step k failed, no later run step is ever called (nor is a
\* docker process started for one), and a configured cleanup step is called
\* exactly once, right after step k.
C2_StepShortCircuit ==
    \A k \in 1..NSteps :
        Failed(k) =>
            /\ \A j \in (k+1)..NSteps :
                   /\ ~InSeq(j, calls)
                   /\ \A i \in DOMAIN procs : procs[i].step # j
            /\ cmd.After # Nil =>
                   /\ Count(AfterIx, calls) = 1
                   /\ calls[Len(calls)] = AfterIx
                   /\ calls[Len(calls) - 1] = k

\* C2 witness: the first of several run steps failed, the cleanup step was
\* run, and Exec returned.
C2_Witness ==
    /\ NSteps > 1
    /\ Failed(1)
    /\ outs[AfterIx] # Nil
    /\ pc = "done"

\* C3: when the setup step failed, execStep is called for no other step, no
\* docker process of another step is started, and Exec has returned the
\* setup step's failure.
C3_SetupShortCircuit ==
    Failed(BeforeIx) =>
        /\ calls = <<BeforeIx>>
        /\ \A i \in DOMAIN procs : procs[i].step = BeforeIx
        /\ pc = "done"
        /\ result = outs[BeforeIx]

\* C3 witness: the setup step of a command that has a cleanup step failed
\* after its docker process was run.
C3_Witness ==
    /\ cmd.After # Nil
    /\ Failed(BeforeIx)
    /\ Len(procs) = 1
    /\ pc = "done"

\* C4: when Exec returned after its cleanup step: if every run step
\* succeeded and the cleanup step failed, the result is the cleanup step's
\* failure; if a run step failed, the result is that step's failure,
\* whatever the cleanup step returned.
C4_CleanupPrecedence ==
    (pc = "done" /\ outs[AfterIx] # Nil) =>
        /\ ((\A k \in 1..NSteps : Succeeded(k)) /\ Failed(AfterIx))
               => result = outs[AfterIx]
        /\ \A k \in 1..NSteps : Failed(k) => result = outs[k]

\* C4 witness: a run step and the cleanup step failed in different ways.
C4_Witness ==
    /\ pc = "done"
    /\ Failed(AfterIx)
    /\ \E k \in 1..NSteps : Failed(k) /\ outs[k] # outs[AfterIx]

\* C5: the exec call of a step whose docker process was killed at the
\* step's timeout returns ErrTimeout; and running a step's docker process
\* starts exactly one kill goroutine, for the request's ID, when the process
\* ended killed and the action is `run`, and none otherwise; no other
\* statement of Exec starts one.
C5_TimeoutClassification ==
    [][ /\ (rets' # rets /\ cause = "timeout") => rets'[cur].err = ErrTimeout
        /\ raws' # raws =>
              /\ kills' \in {kills, Append(kills, [frame |-> cur,
                                     id |-> req.ID, pc |-> "start"])}
              /\ Len(kills') = Len(kills) + 1
                    <=> (StepAt(cur).Action = actionRun
                         /\ IsKilled(raws'[cur].err))
        /\ raws' = raws => Len(kills') = Len(kills) ]_vars

\* C6: whenever exec has returned for a step whose docker process ended
\* killed, it returned ErrTimeout and execStep returned the timeout failure:
\* nothing the kill goroutine does, and no moment at which it does it,
\* changes them.
C6_KillNeverAltersResult ==
    \A k \in StepIxs :
        (rets[k] # Nil /\ IsKilled(raws[k].err)) =>
            /\ rets[k].err = ErrTimeout
            /\ outs[k] = Fail(req.ID, ErrTimeout)

\* C7: a step of a kill goroutine, taken while the exec call that started
\* the goroutine has not returned, changes no variable of that call or of
\* Exec: all it writes is its own.
C7_KillWritesNothingShared ==
    [][ \A i \in DOMAIN kills :
          (/\ Len(kills') = Len(kills)
           /\ kills'[i] # kills[i]
           /\ rets[kills[i].frame] = Nil)
              => UNCHANGED <<ctl, loc, errv, cause>> ]_vars

\* C8: execStep's Execution for a step whose docker process exited nonzero
\* (not killed) is a failure whose Stderr is the captured stdout followed
\* by the captured stderr, and whose Stdout is empty.
C8_ContentFailureFraming ==
    \A k \in StepIxs :
        (/\ outs[k] # Nil
         /\ raws[k] # Nil
         /\ raws[k].err.kind = "ExitError"
         /\ ~IsKilled(raws[k].err))
            => /\ ~outs[k].OK
               /\ outs[k].Stderr = raws[k].stdout \o raws[k].stderr
               /\ outs[k].Stdout = ""

\* the error validateVersion makes for a step
VersionError(step) ==
    Errorf("box " \o step.Box \o " does not support version " \o req.Version)

\* validateVersion has been run for step k
Validated(k) == InSeq(k, calls) /\ ~(cur = k /\ pc = "validateVersion")

\* step k got past validateVersion: it stands at, or has run, the copying
\* of the box files or the docker invocation
Proceeded(k) ==
    \/ cur = k /\ pc \in {"copyFiles", "exec"}
    \/ InSeq(k, copies)
    \/ \E i \in DOMAIN procs : procs[i].step = k

\* C9: for a step of a configured box that pins no version: when the
\* request's version is set and not among the box's versions, the step
\* returns the version error, no box file is copied and no docker process
\* is started for it; when the request's version is among them, or empty,
\* the step gets past validation and never returns the version error, it
\* starts a docker process unless copying the box files failed, and with an
\* empty request version a `run` uses the box's untagged image. A step that
\* pins a version gets past validation whatever the request's version.
C9_VersionGating ==
    \A k \in StepIxs :
        (StepAt(k) # Nil /\ BoxOf(StepAt(k).Box) # Nil) =>
            LET step == StepAt(k)
                box == BoxOf(step.Box)
                bad == /\ step.Version = ""
                       /\ req.Version # ""
                       /\ req.Version \notin box.Versions
            IN /\ bad =>
                    /\ ~InSeq(k, copies)
                    /\ \A i \in DOMAIN procs : procs[i].step # k
                    /\ Validated(k) => outs[k] = Fail(req.ID, VersionError(step))
               /\ (~bad /\ Validated(k)) =>
                    /\ Proceeded(k)
                    /\ outs[k] # Nil =>
                          /\ outs[k].Err # VersionError(step)
                          /\ \/ \E i \in DOMAIN procs : procs[i].step = k
                             \/ outs[k].Err = NewExecutionError(
                                    "copy files to temp dir",
                                    OsError("copy: no space left"))
                    /\ \A i \in DOMAIN procs :
                          (/\ procs[i].step = k
                           /\ step.Version = ""
                           /\ req.Version = ""
                           /\ step.Action = actionRun)
                              => procs[i].args.image = box.Image

\* C9 witness: Exec returned after a version-free step of a configured box
\* failed with the version error for the request version "3.0".
C9_Witness ==
    /\ pc = "done"
    /\ req.Version = "3.0"
    /\ \E k \in 1..NSteps :
          /\ StepAt(k) = RunStep
          /\ outs[k] = Fail(req.ID, VersionError(RunStep))

\* C10: Exec never panics, and once it has returned it has returned an
\* Execution, whatever the steps' actions and boxes and the request version.
C10_ExecNeverCrashes == pc # "panic" /\ (pc = "done" => result # Nil)

\* the image argument of the i-th docker invocation
ImageOf(i) == procs[i].args.image

\* C12: the image argument of every `docker run` started is the box image
\* tagged with the step's pinned version when the step pins one, whatever
\* the request's version; else tagged with the request's version when the
\* request has one; else the untagged box image.
C12_ImageTagPriority ==
    \A i \in DOMAIN procs :
        procs[i].args.cmd = actionRun =>
            LET step == StepAt(procs[i].step)
                image == BoxOf(step.Box).Image
            IN /\ step.Version # ""
                    => ImageOf(i) = image \o ":" \o step.Version
               /\ (step.Version = "" /\ req.Version # "")
                    => ImageOf(i) = image \o ":" \o req.Version
               /\ (step.Version = "" /\ req.Version = "")
                    => ImageOf(i) = image

\* C12 witness: a `docker run` was started for a step pinning "3.12" in a
\* request for version "2.0", with the image python:3.12.
C12_Witness ==
    /\ req.Version = "2.0"
    /\ \E i \in DOMAIN procs :
          /\ StepAt(procs[i].step) = PinnedStep
          /\ ImageOf(i) = "python:3.12"

\* the class a caller reads off an error exec returned: nil, the ErrTimeout
\* sentinel, an ExecutionError, or any other error
ErrClass(err) ==
    IF err = NoErr THEN "success"
    ELSE IF err = ErrTimeout THEN "timeout"
    ELSE IF err.kind = "ExecutionError" THEN "infrastructure"
    ELSE "content"

\* C13: when exec returns for a step, what it returns is a timeout exactly
\* when the step's docker process was killed for running past the step's
\* timeout: a process killed for another reason, or one that exited
\* nonzero, is not returned as a timeout, a timed-out one is not returned
\* as a content failure, and a process that exited 0 is a success.
C13_OutcomeClassification ==
    [][ rets' # rets =>
          LET class == ErrClass(rets'[cur].err)
          IN /\ class = "timeout" <=> cause = "timeout"
             /\ cause = "timeout" => class # "content"
             /\ cause = "exit0" => class = "success" ]_vars

\* C14: every failure Exec or execStep returns is of one kind, told by its
\* error: a failure that did not come from the program's exit status (the
\* temp directory or a request file could not be made, the version is not
\* supported, the box files could not be copied, docker could not be
\* started) carries an ExecutionError, and a nonzero exit carries an error
\* that is neither an ExecutionError nor ErrTimeout.
C14_ErrorKinds ==
    /\ (pc = "done" /\ calls = <<>>) => ErrClass(result.Err) = "infrastructure"
    /\ \A k \in StepIxs :
          Failed(k) =>
              LET class == ErrClass(outs[k].Err)
              IN /\ class \in {"infrastructure", "timeout", "content"}
                 /\ (raws[k] = Nil \/ raws[k].err.kind = "PathError")
                        => class = "infrastructure"
                 /\ (/\ raws[k] # Nil
                     /\ raws[k].err.kind = "ExitError"
                     /\ ~IsKilled(raws[k].err)) => class = "content"

\* C20: the image of every `docker run` started is the box image with the
\* step's pinned version as its tag, or with one of the box's supported
\* versions as its tag, or with no tag: no request version outside the
\* box's set ever becomes the tag of a started container.
C20_LaunchedTagSupported ==
    \A i \in DOMAIN procs :
        procs[i].args.cmd = actionRun =>
            LET step == StepAt(procs[i].step)
                box == BoxOf(step.Box)
                pinned == IF step.Version # ""
                          THEN {box.Image \o ":" \o step.Version} ELSE {}
                supported == {box.Image \o ":" \o v : v \in box.Versions}
            IN ImageOf(i) \in pinned \cup supported \cup {box.Image}

\* C20 witness: a `docker run` was started for a version-free step with the
\* request's supported version "2.0" as the tag.
C20_Witness ==
    /\ req.Version = "2.0"
    /\ \E i \in DOMAIN procs :
          /\ StepAt(procs[i].step) = RunStep
          /\ ImageOf(i) = "python:2.0"

\* the steps execStep returned a failure for, and those it returned a
\* success for
FailedSteps == {k \in StepIxs : Failed(k)}

SucceededSteps == {k \in StepIxs : Succeeded(k)}

\* the least and the greatest element of a nonempty set of step indices
First(S) == CHOOSE k \in S : \A j \in S : k <= j

Last(S) == CHOOSE k \in S : \A j \in S : j <= k

\* C17 as stated: when Exec returned after running steps, a successful
\* result carries the stdout and stderr of the last step that succeeded,
\* the setup and cleanup steps counting as steps, and a failed result
\* carries the error of the first step that failed.
C17_LastSucceededStep ==
    (pc = "done" /\ calls # <<>>) =>
        /\ result.OK =>
              /\ result.Stdout = outs[Last(SucceededSteps)].Stdout
              /\ result.Stderr = outs[Last(SucceededSteps)].Stderr
        /\ ~result.OK => result.Err = outs[First(FailedSteps)].Err

\* C17 amended: when Exec returned after running steps, a successful result
\* means no step failed and is the Execution of the last run step (the
\* cleanup step's output is never returned), and a failed result is the
\* Execution of the first step that failed.
C17_ReturnedExecution ==
    (pc = "done" /\ calls # <<>>) =>
        /\ result.OK =>
              /\ FailedSteps = {}
              /\ result = outs[NSteps]
        /\ ~result.OK => result = outs[First(FailedSteps)]

\* C17 witness: Exec returned a success after its cleanup step succeeded
\* with an output of its own.
C17_Witness ==
    /\ pc = "done"
    /\ result.OK
    /\ Succeeded(AfterIx)
    /\ outs[AfterIx].Stdout # result.Stdout

\* C11: of the request files written in one Exec call, the entry with the
\* empty name is written to the command's entry point file, and no two
\* entries are written to the same path.
C11_StagedPathsDistinct ==
    /\ \A i \in DOMAIN written : req.Files[i] = "" => written[i] = cmd.Entry
    /\ \A i, j \in DOMAIN written : i # j => written[i] # written[j]

\* the file patterns of the box of step k, none for a step without a box
BoxFilesOf(k) ==
    IF StepAt(k) = Nil \/ BoxOf(StepAt(k).Box) = Nil THEN <<>>
    ELSE BoxOf(StepAt(k).Box).Files

\* C15 as stated: in a call whose steps have box files to copy, box files
\* have been copied whenever a request file has been written or a docker
\* process has been started.
C15_BoxFilesFirst ==
    (\E k \in StepIxs : BoxFilesOf(k) # <<>>) =>
        ((written # <<>> \/ procs # <<>>) => copies # <<>>)

\* C15 amended: the request files are written first: whenever box files
\* have been copied or a docker process has been started, every request
\* file of a command with an entry point has been written; and the box
\* files of a step's box have been copied, in that step, whenever the
\* step's docker process has been started.
C15_StagingOrder ==
    /\ (copies # <<>> \/ procs # <<>>) =>
          (cmd.Entry # "" => Len(written) = Len(req.Files))
    /\ \A i \in DOMAIN procs :
          BoxFilesOf(procs[i].step) # <<>> => InSeq(procs[i].step, copies)

\* C15 witness: Exec returned after it wrote the request file, copied box
\* files and started a docker process.
C15_Witness ==
    /\ pc = "done"
    /\ written # <<>>
    /\ copies # <<>>
    /\ procs # <<>>

\* Exec returned because a request file could not be written
WriteFailed == pc = "done" /\ dir = "removed" /\ calls = <<>>

\* step k failed because its box files could not be copied: they were
\* being copied, and the step returned a failure without running docker
CopyFailed(k) == Failed(k) /\ raws[k] = Nil /\ InSeq(k, copies)

\* the docker invocations that launch a container
Launches == {i \in DOMAIN procs : procs[i].args.cmd = actionRun}

\* C16 as stated: when a request file could not be written, or the box
\* files of any step could not be copied, Exec has returned that failure,
\* an infrastructure error, and no container is launched in the call,
\* neither before nor after.
C16_StagingFailureNoContainer ==
    /\ WriteFailed =>
          /\ ErrClass(result.Err) = "infrastructure"
          /\ Launches = {}
    /\ \A k \in StepIxs :
          CopyFailed(k) =>
              /\ ErrClass(outs[k].Err) = "infrastructure"
              /\ pc = "done"
              /\ result = outs[k]
              /\ Launches = {}

\* C16 amended: when a request file could not be written, Exec has returned
\* an infrastructure error and has run no step and no docker process. When
\* the box files of a step could not be copied, the step has returned an
\* infrastructure error without running its docker process; no later run
\* step is called, a failed setup step ends the call, and after a failed
\* run step a configured cleanup step is still called.
C16_StagingFailure ==
    /\ WriteFailed =>
          /\ ErrClass(result.Err) = "infrastructure"
          /\ procs = <<>>
    /\ \A k \in StepIxs :
          CopyFailed(k) =>
              /\ ErrClass(outs[k].Err) = "infrastructure"
              /\ \A i \in DOMAIN procs : procs[i].step # k
              /\ \A j \in 1..NSteps : j > k => ~InSeq(j, calls)
              /\ k = BeforeIx => (pc = "done" /\ result = outs[k])
              /\ (k \in 1..NSteps /\ cmd.After # Nil) => InSeq(AfterIx, calls)

\* C16 witness: the box files of the second run step could not be copied;
\* the first run step had launched a container before, and the cleanup
\* step launched one after.
C16_Witness ==
    /\ pc = "done"
    /\ NSteps = 2
    /\ CopyFailed(2)
    /\ \E i \in Launches : procs[i].step = 1
    /\ \E i \in Launches : procs[i].step = AfterIx

\* C19: a `docker kill` run by the goroutine of a timed-out step kills no
\* container but the one that step started, and no `docker run` of a later
\* step is started while a container named req.ID exists.
C19_KillOnlyItsOwnContainer ==
    [][ /\ \A i \in DOMAIN kills :
              (/\ Len(kills') = Len(kills)
               /\ kills[i].pc = "start"
               /\ kills'[i].pc = "called"
               /\ ctr # Nil) => ctr.step = kills[i].frame
        /\ (/\ Len(procs') > Len(procs)
            /\ procs'[Len(procs')].args.cmd = actionRun) => ctr = Nil ]_vars

\* the docker process of the `run` step k ended killed
TimedOutRun(k) ==
    /\ k \in StepIxs
    /\ StepAt(k) # Nil
    /\ StepAt(k).Action = actionRun
    /\ raws[k] # Nil
    /\ IsKilled(raws[k].err)

\* the kill goroutine started by the exec call of step k has run
\* `docker kill` for the request's ID and has ended
KillDone(k) ==
    \E i \in DOMAIN kills :
        kills[i].frame = k /\ kills[i].id = req.ID /\ kills[i].pc = "done"

\* C18: while Exec has not returned it can take a step, whatever the kill
\* goroutines are doing; and under fair scheduling, once the docker process
\* of a `run` step ended killed, Exec returns, and the kill goroutine of
\* that step runs `docker kill` for the request's ID and ends.
C18_KillEventuallyDone ==
    /\ [](pc # "done" => ENABLED ExecNext)
    /\ \A k \in 0..(MaxSteps + 1) : TimedOutRun(k) ~> pc = "done"
    /\ \A k \in 0..(MaxSteps + 1) : TimedOutRun(k) ~> KillDone(k)

\* C18 witness: Exec has returned the timeout of its run step while the
\* kill goroutine of that step has not yet run `docker kill`.
C18_Witness ==
    /\ pc = "done"
    /\ TimedOutRun(1)
    /\ result.Err = ErrTimeout
    /\ \E i \in DOMAIN kills : kills[i].frame = 1 /\ kills[i].pc = "start"

====
